---- MODULE Spec2Model ----
(***************************************************************************)
(* The lifecycle of an ACM PCA certificate authority as driven by          *)
(* aws/resource_aws_acmpca_certificate_authority.go and its certificate    *)
(* attachment, aws/resource_aws_acmpca_certificate_authority_certificate_  *)
(* attachment.go.                                                          *)
(*                                                                         *)
(* One caller runs one lifecycle operation at a time (op, pc).  Every      *)
(* remote call of a handler is one step, so that the provider may change   *)
(* between two calls of the same handler.  The provider (remote) is the    *)
(* environment: it answers calls from its state, may answer any call with  *)
(* an unrelated failure, and moves authorities on its own.                 *)
(***************************************************************************)
EXTENDS Integers, Sequences, FiniteSets, TLC

\* ---------------------------------------------------------------- bounds
\* Lifecycle operations the framework starts in a run.
MaxOperations == 3
\* Authorities the provider creates in a run (ARNs are never reused).
MaxAuthorities == 2
\* Attempts of the create call that fit in resource.Retry's budget.
MaxAttempts == 2
\* Refreshes that fit in the create timeout of the activation wait.
MaxPolls == 2

\* ------------------------------------------------------- Go value helpers
\* A pointer is Nil or holds one value (aws.String, aws.Bool, aws.Int64).
Nil == <<>>
Ptr(v) == <<v>>
Value(p, zero) == IF p = Nil THEN zero ELSE p[1]

\* An optional attribute of the configuration: whether the configuration
\* sets it, and its value (the zero value when it does not).
NotSet(zero) == [set |-> FALSE, v |-> zero]
SetTo(x) == [set |-> TRUE, v |-> x]

\* schema.ResourceData.GetOk: ok only for a value set to a non-zero value.
GetOk(attr, zero) == attr.set /\ attr.v # zero

\* The Go type d.Get returns for an attribute, from the attribute's
\* schema type.
GoTypeOfGet(key) ==
    CASE key \in {"certificate_authority_configuration", "revocation_configuration"}
            -> "[]interface{}"
      [] key \in {"validity_length", "permanent_deletion_time_in_days"} -> "int"
      [] key = "enabled" -> "bool"
      [] key = "tags" -> "map[string]interface{}"
      [] OTHER -> "string"

\* x.(T) without the comma-ok form: panics unless the dynamic type is T.
TypeAssertionPanics(key, goType) == GoTypeOfGet(key) # goType

\* ------------------------------------------------------------ error codes
ErrNotFound == "ResourceNotFoundException"
ErrInvalidState == "InvalidStateException"
\* ValidationException "... Check your S3 bucket permissions and try again"
ErrS3Permissions == "ValidationException:S3"
\* Any other failure of a call (throttling, access denied, limit exceeded).
ErrOther == "OtherException"
Ok == "ok"

\* isAWSErr(err, code, message)
isAWSErr(err, code) == err = code

\* ------------------------------------------------------------ the domain
StatusCreating == "CREATING"
StatusPendingCertificate == "PENDING_CERTIFICATE"
StatusActive == "ACTIVE"
StatusDisabled == "DISABLED"
StatusExpired == "EXPIRED"
StatusFailed == "FAILED"

TypeRoot == "ROOT"
TypeSubordinate == "SUBORDINATE"

Arn(n) == "arn:" \o ToString(n)
Arns == {Arn(n) : n \in 1..MaxAuthorities}

CrlBlock ==
    [custom_cname |-> "", enabled |-> TRUE, expiration_in_days |-> 7,
     s3_bucket_name |-> "bucket"]
\* revocation_configuration as the configuration writes it: no block, a
\* block without crl_configuration, a block with one.
RevocationConfigs ==
    { <<>>, <<[crl_configuration |-> <<>>]>>, <<[crl_configuration |-> <<CrlBlock>>]>> }

TagMaps == { {}, {<<"env", "dev">>} }

CertificateAuthorityConfiguration ==
    <<[key_algorithm |-> "RSA_4096", signing_algorithm |-> "SHA512WITHRSA",
       subject |-> <<[common_name |-> "example.com"]>>]>>

\* ------------------------------------------------------ ConfigTranscoder
expandAcmpcaCrlConfiguration(l) ==
    IF Len(l) = 0 THEN Nil
    ELSE LET m == l[1] IN
         Ptr([Enabled |-> Ptr(m.enabled),
              CustomCname |-> IF m.custom_cname # "" THEN Ptr(m.custom_cname) ELSE Nil,
              ExpirationInDays |->
                  IF m.expiration_in_days > 0 THEN Ptr(m.expiration_in_days) ELSE Nil,
              S3BucketName |->
                  IF m.s3_bucket_name # "" THEN Ptr(m.s3_bucket_name) ELSE Nil])

expandAcmpcaRevocationConfiguration(l) ==
    IF Len(l) = 0 THEN Nil
    ELSE Ptr([CrlConfiguration |-> expandAcmpcaCrlConfiguration(l[1].crl_configuration)])

flattenAcmpcaCrlConfiguration(config) ==
    IF config = Nil THEN <<>>
    ELSE << [custom_cname |-> Value(config[1].CustomCname, ""),
             enabled |-> Value(config[1].Enabled, FALSE),
             expiration_in_days |-> Value(config[1].ExpirationInDays, 0),
             s3_bucket_name |-> Value(config[1].S3BucketName, "")] >>

\* Mutant: an absent revocation configuration flattens to one block.
flattenAcmpcaRevocationConfigurationDefaultBlock(config) ==
    << [crl_configuration |->
           IF config = Nil THEN <<>>
           ELSE flattenAcmpcaCrlConfiguration(config[1].CrlConfiguration)] >>

\* Lines 789-799.
flattenAcmpcaRevocationConfiguration(config) ==
    IF config = Nil THEN <<>>
    ELSE << [crl_configuration |-> flattenAcmpcaCrlConfiguration(config[1].CrlConfiguration)] >>

\* The thirteen attributes of subject, with the ASN1Subject field of each.
SubjectFieldOf ==
    [common_name |-> "CommonName", country |-> "Country",
     distinguished_name_qualifier |-> "DistinguishedNameQualifier",
     generation_qualifier |-> "GenerationQualifier",
     given_name |-> "GivenName", initials |-> "Initials",
     locality |-> "Locality", organization |-> "Organization",
     organizational_unit |-> "OrganizationalUnit", pseudonym |-> "Pseudonym",
     state |-> "State", surname |-> "Surname", title |-> "Title"]

SubjectAttributes == DOMAIN SubjectFieldOf
SubjectFields == {SubjectFieldOf[k] : k \in SubjectAttributes}
AttributeOfField(f) == CHOOSE k \in SubjectAttributes : SubjectFieldOf[k] = f

\* Lines 631-680.
expandAcmpcaASN1Subject(l) ==
    IF Len(l) = 0 THEN Nil
    ELSE LET m == l[1] IN
         Ptr([f \in SubjectFields |->
                 IF m[AttributeOfField(f)] # "" THEN Ptr(m[AttributeOfField(f)]) ELSE Nil])

\* Lines 682-696.
expandAcmpcaCertificateAuthorityConfiguration(l) ==
    IF Len(l) = 0 THEN Nil
    ELSE LET m == l[1] IN
         Ptr([KeyAlgorithm |-> Ptr(m.key_algorithm),
              SigningAlgorithm |-> Ptr(m.signing_algorithm),
              Subject |-> expandAcmpcaASN1Subject(m.subject)])

\* Lines 736-758.
flattenAcmpcaASN1Subject(subject) ==
    IF subject = Nil THEN <<>>
    ELSE << [k \in SubjectAttributes |-> Value(subject[1][SubjectFieldOf[k]], "")] >>

\* Lines 760-772.
flattenAcmpcaCertificateAuthorityConfiguration(config) ==
    IF config = Nil THEN <<>>
    ELSE << [key_algorithm |-> Value(config[1].KeyAlgorithm, ""),
             signing_algorithm |-> Value(config[1].SigningAlgorithm, ""),
             subject |-> flattenAcmpcaASN1Subject(config[1].Subject)] >>

\* ---------------------------------------------------------------- state
VARIABLES
    d,          \* the authority resource's schema.ResourceData
    att,        \* the certificate attachment resource's schema.ResourceData
    remote,     \* the provider: ARN -> authority
    idCounter,  \* unique ids handed out so far
    started,    \* lifecycle operations started so far
    op,         \* the lifecycle operation running or last run
    pc,         \* the caller's position in it
    ret,        \* what the operation returned
    input,      \* the request the running operation built
    output,     \* Create: the ARN the create call answered with
    resultErr,  \* resource.Retry: the error of the last finished attempt
    attempts,   \* resource.Retry: attempts made
    polls,      \* WaitForState: refreshes made
    calls,      \* the remote calls of the operation, in order
    disturbed,  \* the provider left the plain scenario during the operation
    transcoding, \* the record the ConfigTranscoder is applied to, and its images
    waitTimedOut \* history: the last Create gave up its activation wait on timeout

vars == <<d, att, remote, idCounter, started, op, pc, ret, input, output, resultErr, attempts, polls,
          calls, disturbed, transcoding, waitTimedOut>>

RetNil == "nil"
RetPanic == "panic"
Running == "running"

\* ------------------------------------------------------------ the provider
NoAuthority ==
    [life |-> "free", status |-> "", type |-> "", token |-> "",
     certificate |-> "", certificate_chain |-> "",
     revocation |-> Nil, tags |-> {}, deleting |-> FALSE]

Live(r, arn) == arn \in Arns /\ r[arn].life = "live"

\* The CSR the provider generated with the authority's key pair.
CsrOf(arn) == "csr:" \o arn

Call(api, req, resp) == [api |-> api, req |-> req, resp |-> resp]

\* CreateCertificateAuthority deduplicates on the idempotency token: a token
\* it has seen answers with the authority created for it.
ArnOfToken(r, token) ==
    IF \E a \in Arns : r[a].life = "live" /\ r[a].token = token
    THEN CHOOSE a \in Arns : r[a].life = "live" /\ r[a].token = token
    ELSE ""

NextFreeArn(r) ==
    IF \E n \in 1..MaxAuthorities : r[Arn(n)].life = "free"
    THEN Arn(CHOOSE n \in 1..MaxAuthorities :
                /\ r[Arn(n)].life = "free"
                /\ \A m \in 1..(n - 1) : r[Arn(m)].life # "free")
    ELSE ""

\* The provider's state after it served the create request in.
ProviderCreate(r, in) ==
    IF ArnOfToken(r, in.IdempotencyToken) # "" \/ NextFreeArn(r) = "" THEN r
    ELSE [r EXCEPT ![NextFreeArn(r)] =
             [NoAuthority EXCEPT !.life = "live", !.status = StatusCreating,
                                 !.type = in.CertificateAuthorityType,
                                 !.token = in.IdempotencyToken,
                                 !.revocation = in.RevocationConfiguration,
                                 !.tags = in.Tags]]

\* GetCertificateAuthorityCertificate: "Returned when in PENDING_CERTIFICATE
\* status: InvalidStateException".
CertificateResponse(r, arn) ==
    IF ~Live(r, arn) THEN ErrNotFound
    ELSE IF r[arn].certificate = "" THEN ErrInvalidState
    ELSE Ok

\* GetCertificateAuthorityCsr: no CSR before the key pair exists.
CsrResponse(r, arn) ==
    IF ~Live(r, arn) THEN ErrNotFound
    ELSE IF r[arn].status \in {StatusCreating, StatusFailed} THEN ErrInvalidState
    ELSE Ok

\* ImportCertificateAuthorityCertificate: the authority must hold a CSR.
ImportResponse(r, arn) ==
    IF ~Live(r, arn) THEN ErrNotFound
    ELSE IF r[arn].status \in {StatusCreating, StatusFailed} THEN ErrInvalidState
    ELSE Ok

ProviderImport(r, arn, certificate, chain) ==
    [r EXCEPT ![arn].certificate = certificate,
              ![arn].certificate_chain = chain,
              ![arn].status = IF @ = StatusPendingCertificate THEN StatusActive ELSE @]

\* What a call answers: what the provider's state says, or any other failure.
Answers(semantic) == {semantic, ErrOther}

\* --------------------------------------------------------------- Init
NewResourceData ==
    [id |-> "", type |-> TypeSubordinate,
     validity_length |-> NotSet(0), validity_unit |-> NotSet(""),
     revocation_configuration |-> <<>>, permanent_deletion_time_in_days |-> 30,
     enabled |-> TRUE, tags |-> {},
     status |-> "", certificate |-> "", certificate_chain |-> "",
     certificate_signing_request |-> ""]

NewAttachmentData ==
    [id |-> "", certificate_authority_arn |-> "", certificate_body |-> "",
     certificate_chain |-> ""]

NoInput == [api |-> "none"]

NoTranscoding == [kind |-> "none", stage |-> "none"]

Init ==
    /\ d = NewResourceData
    /\ att = NewAttachmentData
    /\ remote = [a \in Arns |-> NoAuthority]
    /\ idCounter = 0
    /\ started = 0
    /\ op = "none"
    /\ pc = "idle"
    /\ ret = RetNil
    /\ input = NoInput
    /\ output = ""
    /\ resultErr = ""
    /\ attempts = 0
    /\ polls = 0
    /\ calls = <<>>
    /\ disturbed = FALSE
    /\ transcoding = NoTranscoding
    /\ waitTimedOut = FALSE

Idle == pc \in {"idle", "done"}

\* An operation begins: nothing of the previous one is left.
Begin(name) ==
    /\ started < MaxOperations
    /\ started' = started + 1
    /\ op' = name
    /\ resultErr' = ""
    /\ attempts' = 0
    /\ polls' = 0

\* The operation returns r.
Return(r) ==
    /\ pc' = "done"
    /\ ret' = r


\* ---------------------------------------- CertificateAuthorityManager.Create
ValidityLengths == {NotSet(0), SetTo(0), SetTo(1)}
\* validity_unit is validated against the provider's units: never "".
ValidityUnits == {NotSet(""), SetTo("YEARS")}
RetentionDays == {7, 30}

\* The configurations Create is given: the default one, and those that
\* differ from it in the type and the validity, in the revocation
\* configuration, or in the retention.
Configurations ==
    { [NewResourceData EXCEPT !.type = TypeRoot, !.validity_length = vl,
                              !.validity_unit = vu] :
      vl \in ValidityLengths, vu \in ValidityUnits }
    \cup { [NewResourceData EXCEPT !.validity_length = SetTo(1),
                                   !.validity_unit = SetTo("YEARS")] }
    \cup { [NewResourceData EXCEPT !.revocation_configuration = rev] :
           rev \in RevocationConfigs }
    \cup { [NewResourceData EXCEPT !.permanent_deletion_time_in_days = days] :
           days \in RetentionDays }

\* Mutant: every authority is taken for a root.
isRootCAAlways(data) == TRUE

\* Line 288.
isRootCA(data) == data.type = TypeRoot

\* Mutant: the check of validity_unit (lines 294-296) is left out.
CreateValidationErrorLengthOnly(data) ==
    IF data.type = TypeRoot /\ ~GetOk(data.validity_length, 0)
    THEN "validity_length must be set"
    ELSE ""

\* Lines 290-297: "" when the configuration passes.
CreateValidationError(data) ==
    IF isRootCA(data) /\ ~GetOk(data.validity_length, 0)
    THEN "validity_length must be set"
    ELSE IF isRootCA(data) /\ ~GetOk(data.validity_unit, "")
    THEN "validity_unit must be set"
    ELSE ""

\* resource.UniqueId()
UniqueId(n) == "id-" \o ToString(n)

\* Lines 300-311.
CreateCertificateAuthorityInput(data, token) ==
    [api |-> "CreateCertificateAuthority",
     CertificateAuthorityType |-> data.type,
     IdempotencyToken |-> token,
     RevocationConfiguration |->
         expandAcmpcaRevocationConfiguration(data.revocation_configuration),
     Tags |-> data.tags]

\* Mutant: every attempt draws a token of its own.
CreateAttemptInputFreshToken ==
    [input EXCEPT !.IdempotencyToken = @ \o "-" \o ToString(Len(calls))]

\* The request an attempt of the create call sends: the one built before
\* resource.Retry (lines 302-307), token included.
CreateAttemptInput == input

\* Whether the provider can answer the create request with success.
CanCreate(r, in) == ArnOfToken(r, in.IdempotencyToken) # "" \/ NextFreeArn(r) # ""

\* resource.Retry returns the error of the last finished attempt when there
\* is one, and the wait's own error (a *TimeoutError) otherwise.
RetryResult(lastErr, waitErr) == IF lastErr = "" THEN waitErr ELSE lastErr

isResourceTimeoutError(err) == err = "TimeoutError"

\* Mutant: the id is not recorded before the wait.
RecordCreatedIdDropped(data, arn) == data

\* Mutant: the id recorded is that of the first authority, whichever the
\* provider assigned.
RecordCreatedIdFirst(data, arn) == [data EXCEPT !.id = Arn(1)]

\* Line 334: d.SetId(aws.StringValue(output.CertificateAuthorityArn)), before
\* the wait.
RecordCreatedId(data, arn) == [data EXCEPT !.id = arn]

\* Lines 287-313: the framework hands Create the planned configuration.
Create ==
    /\ Idle
    /\ d.id = ""
    /\ \E data \in Configurations :
             /\ d' = data
             /\ Begin("Create")
             /\ calls' = <<>>
             /\ disturbed' = FALSE
             /\ IF CreateValidationError(data) # ""
                THEN /\ Return(CreateValidationError(data))
                     /\ UNCHANGED <<idCounter, input>>
                ELSE /\ idCounter' = idCounter + 1
                     /\ input' = CreateCertificateAuthorityInput(data, UniqueId(idCounter + 1))
                     /\ pc' = "create"
                     /\ ret' = Running
    /\ output' = ""
    /\ UNCHANGED <<att, remote, transcoding>>
    /\ waitTimedOut' = FALSE

\* Lines 315-334: one attempt of the create call inside resource.Retry.
\* "noresponse": the call does not return before the budget ends, whether or
\* not the provider served it.
\* Mutant: every failure of the create call is retried.
RetryableAny(resp) == resp \in {ErrS3Permissions, ErrOther}

\* Lines 319-323: resource.RetryableError for the S3 permission message,
\* resource.NonRetryableError for everything else.
Retryable(resp) == resp = ErrS3Permissions

\* Mutant: resource.Retry has no budget.
RetryBudgetLeftAlways(made) == TRUE

\* Line 315: resource.Retry gives up after one minute; the budget is
\* counted in attempts.
RetryBudgetLeft(made) == made < MaxAttempts

CreateCertificateAuthorityInRetry ==
    /\ pc = "create"
    /\ \E resp \in {Ok, ErrS3Permissions, ErrOther, "noresponse"}, served \in BOOLEAN :
          LET in == CreateAttemptInput
              r2 == IF resp = Ok \/ (resp = "noresponse" /\ served)
                    THEN ProviderCreate(remote, in) ELSE remote
              err == CASE resp = "noresponse" -> RetryResult(resultErr, "TimeoutError")
                       [] resp = Ok -> ""
                       [] OTHER -> resp
              retry == Retryable(resp) /\ RetryBudgetLeft(attempts + 1)
          IN /\ resp = Ok => CanCreate(remote, in)
             /\ served => (resp = "noresponse" /\ CanCreate(remote, in))
             /\ remote' = r2
             /\ calls' = Append(calls, Call("CreateCertificateAuthority", in, resp))
             /\ attempts' = attempts + 1
             /\ resultErr' = IF resp \in {ErrS3Permissions, ErrOther} THEN resp
                             ELSE IF resp = Ok THEN "" ELSE resultErr
             /\ disturbed' = (disturbed \/ (resp # Ok /\ ~retry))
             /\ output' = IF resp = Ok THEN ArnOfToken(r2, in.IdempotencyToken) ELSE ""
             /\ IF retry
                THEN UNCHANGED <<pc, ret, d>>
                ELSE IF isResourceTimeoutError(err)
                THEN pc' = "create_after_timeout" /\ UNCHANGED <<ret, d>>
                ELSE IF err # ""
                THEN Return("error creating") /\ UNCHANGED d
                ELSE /\ d' = RecordCreatedId(d, ArnOfToken(r2, in.IdempotencyToken))
                     /\ pc' = "wait"
                     /\ UNCHANGED ret
    /\ UNCHANGED <<att, idCounter, started, op, input, polls, transcoding, waitTimedOut>>

\* Lines 327-334: the attempt made after resource.Retry timed out.
CreateCertificateAuthorityAfterTimeout ==
    /\ pc = "create_after_timeout"
    /\ \E resp \in {Ok, ErrS3Permissions, ErrOther} :
          LET in == CreateAttemptInput
              r2 == IF resp = Ok THEN ProviderCreate(remote, in) ELSE remote
          IN /\ resp = Ok => CanCreate(remote, in)
             /\ remote' = r2
             /\ calls' = Append(calls, Call("CreateCertificateAuthority", in, resp))
             /\ output' = IF resp = Ok THEN ArnOfToken(r2, in.IdempotencyToken) ELSE ""
             /\ IF resp # Ok
                THEN Return("error creating") /\ UNCHANGED d
                ELSE /\ d' = RecordCreatedId(d, ArnOfToken(r2, in.IdempotencyToken))
                     /\ pc' = "wait"
                     /\ UNCHANGED ret
    /\ UNCHANGED <<att, idCounter, started, op, input, resultErr, attempts, polls, disturbed, transcoding, waitTimedOut>>

\* ------------------------------------------------------ ActivationPoller
Pending == {"", StatusCreating}
Target == {StatusActive, StatusPendingCertificate}

\* DescribeCertificateAuthority
DescribeResponse(r, arn) == IF Live(r, arn) THEN Ok ELSE ErrNotFound

\* What a describe made during the wait may answer: what the provider's
\* state says, any other failure, and, while the authority is still being
\* created, not-found (the case lines 544-546 are written for).
WaitAnswers(r, arn) ==
    Answers(DescribeResponse(r, arn)) \cup
    (IF Live(r, arn) /\ r[arn].status = StatusCreating THEN {ErrNotFound} ELSE {})

\* Mutant: not-found is returned as the fetch's error.
acmpcaCertificateAuthorityRefreshFuncStrict(resp, status) ==
    IF resp # Ok
    THEN [result |-> Nil, state |-> "", err |-> resp]
    ELSE [result |-> Ptr(status), state |-> status, err |-> ""]

\* Lines 535-556: the refresh function's (result, state, error).
acmpcaCertificateAuthorityRefreshFunc(resp, status) ==
    IF resp # Ok
    THEN IF isAWSErr(resp, ErrNotFound)
         THEN [result |-> Nil, state |-> "", err |-> ""]
         ELSE [result |-> Nil, state |-> "", err |-> resp]
    ELSE [result |-> Ptr(status), state |-> status, err |-> ""]

\* Mutant: a refresh without a result ends the wait.
WaitForStateOnAbsentDone(refresh) ==
    IF refresh.err # "" THEN "error"
    ELSE IF refresh.result = Nil THEN "done"
    ELSE IF refresh.state \in Target THEN "done"
    ELSE IF refresh.state \in Pending THEN "again"
    ELSE "error"

\* Mutant: a status that is neither pending nor a target ends the wait
\* like a target.
WaitForStateOnAnyEnds(refresh) ==
    IF refresh.err # "" THEN "error"
    ELSE IF refresh.result = Nil THEN "again"
    ELSE IF refresh.state \in Pending THEN "again"
    ELSE "done"

\* StateChangeConf.WaitForState on one refresh: "error", "done" or "again".
\* A refresh without a result counts as not found and is tried again.
WaitForStateOn(refresh) ==
    IF refresh.err # "" THEN "error"
    ELSE IF refresh.result = Nil THEN "again"
    ELSE IF refresh.state \in Target THEN "done"
    ELSE IF refresh.state \in Pending THEN "again"
    ELSE "error"

\* Mutant: the wait has no budget.
TimedOutNever(step, refreshes) == FALSE

\* Line 346: the wait gives up once d.Timeout(schema.TimeoutCreate) has
\* passed; the budget is counted in refreshes.
TimedOut(step, refreshes) == step = "again" /\ refreshes >= MaxPolls

\* Mutant: a wait that failed schedules the authority's deletion.
AfterWaitFailureCancels(r, arn) == [r EXCEPT ![arn].deleting = TRUE]

\* Lines 350-352: the wait's error is returned; the authority is not
\* touched.
AfterWaitFailure(r, arn) == r

\* Mutant: the wait is followed by Read whatever the type.
AfterWaitStepSkipsSelfSign(data) == "read_describe"

\* Lines 354-362: after the wait, self-signing for a root, then Read.
AfterWaitStep(data) == IF isRootCA(data) THEN "selfsign" ELSE "read_describe"

\* Lines 336-360: one refresh of the wait for ACTIVE or PENDING_CERTIFICATE.
WaitForState ==
    /\ pc = "wait"
    /\ \E resp \in WaitAnswers(remote, d.id) :
          LET status == IF resp = Ok THEN remote[d.id].status ELSE ""
              refresh == acmpcaCertificateAuthorityRefreshFunc(resp, status)
              step == WaitForStateOn(refresh)
              timeout == TimedOut(step, polls + 1)
          IN /\ calls' = Append(calls,
                    Call("DescribeCertificateAuthority", [arn |-> d.id, status |-> status], resp))
             /\ polls' = polls + 1
             /\ disturbed' = (disturbed \/ resp = ErrOther \/ timeout)
             /\ waitTimedOut' = timeout
             /\ remote' = IF step = "error" \/ timeout
                          THEN AfterWaitFailure(remote, d.id) ELSE remote
             /\ IF step = "error" \/ timeout
                THEN Return("error waiting")
                ELSE IF step = "again"
                THEN UNCHANGED <<pc, ret>>
                ELSE /\ pc' = AfterWaitStep(d)
                     /\ UNCHANGED ret
    /\ UNCHANGED <<d, att, idCounter, started, op, input, output, resultErr, attempts, transcoding>>

\* Lines 576-586: the request of IssueCertificate, but for its fresh
\* idempotency token; configuration is the value line 573 is to supply.
IssueCertificateInput(data, csr, configuration) ==
    [CertificateAuthorityArn |-> data.id,
     Csr |-> csr,
     SigningAlgorithm |-> configuration.signing_algorithm,
     TemplateArn |-> "arn:aws:acm-pca:::template/RootCACertificate/V1",
     Validity |-> [Type |-> data.validity_unit.v,
                   Value |-> data.validity_length.v]]

\* --------------------------------------------------------- RootSelfSigner
\* Lines 558-573: the CSR is fetched; then the list-typed attribute
\* certificate_authority_configuration is asserted to be a map.
acmpcaCertificateAuthoritySelfSignCert ==
    /\ pc = "selfsign"
    /\ \E resp \in Answers(CsrResponse(remote, d.id)) :
          /\ calls' = Append(calls,
                 Call("GetCertificateAuthorityCsr", [arn |-> d.id], resp))
          /\ disturbed' = (disturbed \/ resp # Ok)
          /\ IF resp # Ok
             THEN Return("error self-signing")
             ELSE IF TypeAssertionPanics("certificate_authority_configuration",
                                         "map[string]interface{}")
             THEN Return(RetPanic)
             ELSE pc' = "selfsign_issue" /\ UNCHANGED ret
    /\ UNCHANGED <<d, att, remote, idCounter, started, op, input, output, resultErr, attempts, polls, transcoding, waitTimedOut>>


\* ------------------------------------------ CertificateAuthorityManager.Read
\* Lines 365-372: the framework refreshes a resource it holds an id for.
Read ==
    /\ Idle
    /\ d.id # ""
    /\ Begin("Read")
    /\ calls' = <<>>
    /\ disturbed' = FALSE
    /\ pc' = "read_describe"
    /\ ret' = Running
    /\ UNCHANGED <<d, att, remote, idCounter, input, output, transcoding, waitTimedOut>>

\* d.SetId("") and return nil: the resource is gone.
RemoveFromState ==
    /\ d' = [d EXCEPT !.id = ""]
    /\ Return(RetNil)

\* Mutant: only an ACTIVE authority counts as enabled.
EnabledOfActiveOnly(status) == status = StatusActive

\* Line 397.
EnabledOf(status) == status # StatusDisabled

\* Lines 374-407.
ReadDescribe ==
    /\ pc = "read_describe"
    /\ \E resp \in Answers(DescribeResponse(remote, d.id)) :
          LET ca == remote[d.id] IN
          /\ calls' = Append(calls,
                 Call("DescribeCertificateAuthority",
                      [arn |-> d.id, status |-> IF resp = Ok THEN ca.status ELSE ""], resp))
          /\ disturbed' = (disturbed \/ resp = ErrOther)
          /\ IF resp # Ok
             THEN IF isAWSErr(resp, ErrNotFound)
                  THEN RemoveFromState
                  ELSE Return("error reading") /\ UNCHANGED d
             ELSE /\ d' = [d EXCEPT
                            !.enabled = EnabledOf(ca.status),
                            !.revocation_configuration =
                                flattenAcmpcaRevocationConfiguration(ca.revocation),
                            !.status = ca.status,
                            !.type = ca.type]
                  /\ pc' = "read_certificate"
                  /\ UNCHANGED ret
    /\ UNCHANGED <<att, remote, idCounter, started, op, input, output, resultErr, attempts, polls, transcoding, waitTimedOut>>

\* Mutant: a fetch without a certificate leaves the held values alone.
SetCertificateKeepsHeld(data, resp, authority) ==
    IF resp = Ok
    THEN [data EXCEPT !.certificate = authority.certificate,
                      !.certificate_chain = authority.certificate_chain]
    ELSE data

\* Lines 429-434: both attributes are emptied, then set from the answer;
\* an answer that is an error carries no certificate.
SetCertificate(data, resp, authority) ==
    [data EXCEPT
        !.certificate = IF resp = Ok THEN authority.certificate ELSE "",
        !.certificate_chain = IF resp = Ok THEN authority.certificate_chain ELSE ""]

\* Lines 454-457.
SetCsr(data, resp, csr) ==
    [data EXCEPT !.certificate_signing_request = IF resp = Ok THEN csr ELSE ""]

\* Mutant: whatever the fetch answers, Read goes on.
ToleratedAny(resp) == TRUE

\* Lines 424-426 and 449-451: the fetch of the certificate and that of the
\* CSR go on after an invalid-state answer, which stands for "none yet".
Tolerated(resp) == resp = Ok \/ isAWSErr(resp, ErrInvalidState)

\* Lines 409-434.
ReadCertificate ==
    /\ pc = "read_certificate"
    /\ \E resp \in Answers(CertificateResponse(remote, d.id)) :
          /\ calls' = Append(calls,
                 Call("GetCertificateAuthorityCertificate", [arn |-> d.id], resp))
          /\ disturbed' = (disturbed \/ resp = ErrOther)
          /\ IF resp # Ok /\ isAWSErr(resp, ErrNotFound)
             THEN RemoveFromState
             ELSE IF ~Tolerated(resp)
             THEN Return("error reading certificate") /\ UNCHANGED d
             ELSE /\ d' = SetCertificate(d, resp, remote[d.id])
                  /\ pc' = "read_csr"
                  /\ UNCHANGED ret
    /\ UNCHANGED <<att, remote, idCounter, started, op, input, output, resultErr, attempts, polls, transcoding, waitTimedOut>>

\* Lines 436-457.
ReadCsr ==
    /\ pc = "read_csr"
    /\ \E resp \in Answers(CsrResponse(remote, d.id)) :
          /\ calls' = Append(calls,
                 Call("GetCertificateAuthorityCsr", [arn |-> d.id], resp))
          /\ disturbed' = (disturbed \/ resp = ErrOther)
          /\ IF resp # Ok /\ isAWSErr(resp, ErrNotFound)
             THEN RemoveFromState
             ELSE IF ~Tolerated(resp)
             THEN Return("error reading csr") /\ UNCHANGED d
             ELSE /\ d' = SetCsr(d, resp, CsrOf(d.id))
                  /\ pc' = "read_tags"
                  /\ UNCHANGED ret
    /\ UNCHANGED <<att, remote, idCounter, started, op, input, output, resultErr, attempts, polls, transcoding, waitTimedOut>>

\* Lines 459-469: keyvaluetags.AcmpcaListTags hands back the error of
\* ListTags as it is.
ReadTags ==
    /\ pc = "read_tags"
    /\ \E resp \in Answers(DescribeResponse(remote, d.id)) :
          /\ calls' = Append(calls, Call("ListTags", [arn |-> d.id], resp))
          /\ disturbed' = (disturbed \/ resp = ErrOther)
          /\ IF resp # Ok
             THEN Return("error listing tags") /\ UNCHANGED d
             ELSE /\ d' = [d EXCEPT !.tags = remote[d.id].tags]
                  /\ Return(RetNil)
    /\ UNCHANGED <<att, remote, idCounter, started, op, input, output, resultErr, attempts, polls, transcoding, waitTimedOut>>

\* ---------------------------------------- CertificateAuthorityManager.Delete
\* Mutant: the retention is not put in the request.
DeleteCertificateAuthorityInputNoRetention(data) ==
    [api |-> "DeleteCertificateAuthority",
     CertificateAuthorityArn |-> data.id,
     PermanentDeletionTimeInDays |-> Nil]

\* Lines 515-521.
DeleteCertificateAuthorityInput(data) ==
    [api |-> "DeleteCertificateAuthority",
     CertificateAuthorityArn |-> data.id,
     PermanentDeletionTimeInDays |->
         IF GetOk(SetTo(data.permanent_deletion_time_in_days), 0)
         THEN Ptr(data.permanent_deletion_time_in_days) ELSE Nil]

\* Mutant: not-found is returned as an error like any other failure.
DeleteResultStrict(resp) == IF resp # Ok THEN "error deleting" ELSE RetNil

\* Lines 525-532: what Delete returns on the answer of the delete call.
DeleteResult(resp) ==
    IF resp # Ok /\ ~isAWSErr(resp, ErrNotFound) THEN "error deleting" ELSE RetNil

\* Lines 512-521: the framework destroys a resource it holds an id for.
Delete ==
    /\ Idle
    /\ d.id # ""
    /\ Begin("Delete")
    /\ input' = DeleteCertificateAuthorityInput(d)
    /\ calls' = <<>>
    /\ disturbed' = FALSE
    /\ pc' = "delete_call"
    /\ ret' = Running
    /\ UNCHANGED <<d, att, remote, idCounter, output, transcoding, waitTimedOut>>

\* DeleteCertificateAuthority schedules the deletion.
ProviderDelete(r, in) == [r EXCEPT ![in.CertificateAuthorityArn].deleting = TRUE]

\* Lines 523-532: the handler's one call, and its return.
DeleteCertificateAuthority ==
    /\ pc = "delete_call"
    /\ \E resp \in Answers(DescribeResponse(remote, input.CertificateAuthorityArn)) :
          /\ calls' = Append(calls, Call("DeleteCertificateAuthority", input, resp))
          /\ disturbed' = (disturbed \/ resp = ErrOther)
          /\ remote' = IF resp = Ok THEN ProviderDelete(remote, input) ELSE remote
          /\ Return(DeleteResult(resp))
    /\ UNCHANGED <<d, att, idCounter, started, op, input, output, resultErr, attempts, polls, transcoding, waitTimedOut>>

\* ---------------------------------------- CertificateAuthorityManager.Update
\* Lines 193-198 and 206-211: a block count going from 1 to 0 is no
\* difference.
DiffSuppressFunc(old, new) == old = 1 /\ new = 0

\* The planned value of a list attribute with that DiffSuppressFunc: a
\* suppressed difference leaves the value of the state.
PlannedCrl(old, new) == IF DiffSuppressFunc(Len(old), Len(new)) THEN old ELSE new

PlannedRevocation(old, new) ==
    IF DiffSuppressFunc(Len(old), Len(new)) THEN old
    ELSE IF Len(old) = 1 /\ Len(new) = 1
    THEN << [crl_configuration |->
                 PlannedCrl(old[1].crl_configuration, new[1].crl_configuration)] >>
    ELSE new

\* d.HasChange(key)
HasChange(old, new, key) == old[key] # new[key]

\* Mutant: the revocation configuration is sent whether it changed or not.
UpdateCertificateAuthorityInputAlwaysRevocation(old, new) ==
    [api |-> "UpdateCertificateAuthority",
     CertificateAuthorityArn |-> new.id,
     Status |->
         IF old.enabled # new.enabled
         THEN IF ~new.enabled THEN Ptr(StatusDisabled) ELSE Ptr(StatusActive)
         ELSE Nil,
     RevocationConfiguration |->
         expandAcmpcaRevocationConfiguration(new.revocation_configuration)]

\* Lines 474-491: the request and whether it is sent.
UpdateCertificateAuthorityInput(old, new) ==
    [api |-> "UpdateCertificateAuthority",
     CertificateAuthorityArn |-> new.id,
     Status |->
         IF HasChange(old, new, "enabled")
         THEN IF ~new.enabled THEN Ptr(StatusDisabled) ELSE Ptr(StatusActive)
         ELSE Nil,
     RevocationConfiguration |->
         IF HasChange(old, new, "revocation_configuration")
         THEN expandAcmpcaRevocationConfiguration(new.revocation_configuration)
         ELSE Nil]

updateCertificateAuthority(old, new) ==
    HasChange(old, new, "enabled") \/ HasChange(old, new, "revocation_configuration")

\* Where Update goes after the combined call (lines 501-509).
AfterUpdateCall == IF input.tagsChange THEN "update_tags" ELSE "read_describe"

\* Lines 472-493: the framework hands Update the state and the plan.
Update ==
    /\ Idle
    /\ d.id # ""
    /\ \E enabled \in BOOLEAN, rev \in RevocationConfigs, tags \in TagMaps :
          LET new == [d EXCEPT
                         !.enabled = enabled,
                         !.revocation_configuration =
                             PlannedRevocation(d.revocation_configuration, rev),
                         !.tags = tags]
              in == [request |-> UpdateCertificateAuthorityInput(d, new),
                     tagsChange |-> HasChange(d, new, "tags"),
                     old |-> d, new |-> new]
          IN /\ new # d
             /\ d' = new
             /\ input' = in
             /\ pc' = IF updateCertificateAuthority(d, new) THEN "update_call"
                      ELSE IF in.tagsChange THEN "update_tags"
                      ELSE "read_describe"
    /\ Begin("Update")
    /\ calls' = <<>>
    /\ disturbed' = FALSE
    /\ ret' = Running
    /\ UNCHANGED <<att, remote, idCounter, output, transcoding, waitTimedOut>>

\* UpdateCertificateAuthority: the authority must exist and be ACTIVE or
\* DISABLED to change its status.
UpdateResponse(r, in) ==
    IF ~Live(r, in.CertificateAuthorityArn) THEN ErrNotFound
    ELSE IF in.Status # Nil
            /\ r[in.CertificateAuthorityArn].status \notin {StatusActive, StatusDisabled}
    THEN ErrInvalidState
    ELSE Ok

ProviderUpdate(r, in) ==
    [r EXCEPT ![in.CertificateAuthorityArn].status = Value(in.Status, @),
              ![in.CertificateAuthorityArn].revocation =
                  IF in.RevocationConfiguration = Nil THEN @
                  ELSE in.RevocationConfiguration]

\* Mutant: Update goes on whatever a call answers.
UpdateFailedNever(resp) == FALSE

\* Lines 496 and 504: err != nil after the combined call and after the
\* reconciliation of the tags.
UpdateFailed(resp) == resp # Ok

\* Lines 493-499.
UpdateCertificateAuthority ==
    /\ pc = "update_call"
    /\ \E resp \in Answers(UpdateResponse(remote, input.request)) :
          /\ calls' = Append(calls,
                 Call("UpdateCertificateAuthority", input.request, resp))
          /\ disturbed' = (disturbed \/ resp # Ok)
          /\ remote' = IF resp = Ok THEN ProviderUpdate(remote, input.request) ELSE remote
          /\ IF UpdateFailed(resp)
             THEN Return("error updating")
             ELSE pc' = AfterUpdateCall /\ UNCHANGED ret
    /\ UNCHANGED <<d, att, idCounter, started, op, input, output, resultErr, attempts, polls, transcoding, waitTimedOut>>

\* Lines 501-507: keyvaluetags.AcmpcaUpdateTags removes the old keys that
\* are gone or changed and writes the new pairs.
UpdateTags ==
    /\ pc = "update_tags"
    /\ \E resp \in Answers(DescribeResponse(remote, d.id)) :
          /\ calls' = Append(calls,
                 Call("UpdateTags",
                      [arn |-> d.id, old |-> input.old.tags, new |-> input.new.tags], resp))
          /\ disturbed' = (disturbed \/ resp # Ok)
          /\ remote' = IF resp = Ok
                       THEN [remote EXCEPT ![d.id].tags =
                                (@ \ input.old.tags) \cup input.new.tags]
                       ELSE remote
          /\ IF UpdateFailed(resp)
             THEN Return("error updating tags")
             ELSE pc' = "read_describe" /\ UNCHANGED ret
    /\ UNCHANGED <<d, att, idCounter, started, op, input, output, resultErr, attempts, polls, transcoding, waitTimedOut>>

\* ------------------------------------------------- CertificateAttachment
\* resource.PrefixedUniqueId(prefix)
PrefixedUniqueId(prefix, n) == prefix \o ToString(n)

\* Lines 44-54.
ImportCertificateAuthorityCertificateInput(data) ==
    [api |-> "ImportCertificateAuthorityCertificate",
     Certificate |-> data.certificate_body,
     CertificateAuthorityArn |-> data.certificate_authority_arn,
     CertificateChain |->
         IF GetOk(SetTo(data.certificate_chain), "")
         THEN data.certificate_chain ELSE ""]

\* The attachments the configuration asks for.
Attachments ==
    { [NewAttachmentData EXCEPT !.certificate_authority_arn = caARN,
                                !.certificate_body = c[1],
                                !.certificate_chain = c[2]] :
      caARN \in Arns, c \in {<<"certA", "chainA">>, <<"certB", "">>} }

\* Lines 42-56: the framework hands Create the planned attachment.
AttachmentCreate ==
    /\ Idle
    /\ att.id = ""
    /\ Begin("AttachmentCreate")
    /\ \E data \in Attachments :
          /\ att' = data
          /\ input' = ImportCertificateAuthorityCertificateInput(data)
    /\ calls' = <<>>
    /\ disturbed' = FALSE
    /\ pc' = "attachment_import"
    /\ ret' = Running
    /\ UNCHANGED <<d, remote, idCounter, output, transcoding, waitTimedOut>>

\* Mutant: the id is assigned whatever the import answered.
AssignAttachmentIdAlways(data, resp, n) ==
    [data EXCEPT !.id = PrefixedUniqueId(data.certificate_authority_arn \o "-", n)]

\* Lines 58-62: an import that failed returns before d.SetId.
AssignAttachmentId(data, resp, n) ==
    IF resp # Ok THEN data
    ELSE [data EXCEPT !.id = PrefixedUniqueId(data.certificate_authority_arn \o "-", n)]

\* Lines 57-63: the import; the id is set after it succeeded.
AttachmentImport ==
    /\ pc = "attachment_import"
    /\ LET caARN == att.certificate_authority_arn IN
       \E resp \in Answers(ImportResponse(remote, caARN)) :
          /\ calls' = Append(calls,
                 Call("ImportCertificateAuthorityCertificate", input, resp))
          /\ disturbed' = (disturbed \/ resp = ErrOther)
          /\ remote' = IF resp = Ok
                       THEN ProviderImport(remote, caARN, input.Certificate,
                                           input.CertificateChain)
                       ELSE remote
          /\ att' = AssignAttachmentId(att, resp, idCounter + 1)
          /\ IF resp # Ok
             THEN /\ Return("error importing")
                  /\ UNCHANGED idCounter
             ELSE /\ idCounter' = idCounter + 1
                  /\ pc' = "attachment_read"
                  /\ UNCHANGED ret
    /\ UNCHANGED <<d, started, op, input, output, resultErr, attempts, polls, transcoding, waitTimedOut>>

\* Lines 66-68: the framework refreshes an attachment it holds an id for.
AttachmentRead ==
    /\ Idle
    /\ att.id # ""
    /\ Begin("AttachmentRead")
    /\ calls' = <<>>
    /\ disturbed' = FALSE
    /\ pc' = "attachment_read"
    /\ ret' = Running
    /\ UNCHANGED <<d, att, remote, idCounter, input, output, transcoding, waitTimedOut>>

\* The attributes of the attachment's schema (lines 20-38).
AttachmentSchema == {"certificate_authority_arn", "certificate_body", "certificate_chain"}

\* d.Set(key, value): an attribute the schema lacks is not stored.
Set(data, key, value) ==
    IF key \in AttachmentSchema THEN [data EXCEPT ![key] = value] ELSE data

\* Mutant: invalid-state is returned as an error like any other failure.
AttachmentReadOutcomeStrict(data, resp, authority) ==
    IF resp # Ok
    THEN IF isAWSErr(resp, ErrNotFound)
         THEN [data |-> [data EXCEPT !.id = ""], ret |-> RetNil]
         ELSE [data |-> data, ret |-> "error reading attachment"]
    ELSE [data |-> Set(Set(data, "certificate", authority.certificate),
                       "certificate_chain", authority.certificate_chain),
          ret |-> RetNil]

\* Lines 77-96: the attachment's data and Read's result after the fetch
\* answered resp.
AttachmentReadOutcome(data, resp, authority) ==
    IF resp # Ok
    THEN IF isAWSErr(resp, ErrNotFound) \/ isAWSErr(resp, ErrInvalidState)
         THEN [data |-> [data EXCEPT !.id = ""], ret |-> RetNil]
         ELSE [data |-> data, ret |-> "error reading attachment"]
    ELSE [data |-> Set(Set(data, "certificate", authority.certificate),
                       "certificate_chain", authority.certificate_chain),
          ret |-> RetNil]

\* Lines 70-96.
AttachmentGetCertificate ==
    /\ pc = "attachment_read"
    /\ LET caARN == att.certificate_authority_arn IN
       \E resp \in Answers(CertificateResponse(remote, caARN)) :
          /\ calls' = Append(calls,
                 Call("GetCertificateAuthorityCertificate", [arn |-> caARN], resp))
          /\ disturbed' = (disturbed \/ resp = ErrOther)
          /\ att' = AttachmentReadOutcome(att, resp, remote[caARN]).data
          /\ Return(AttachmentReadOutcome(att, resp, remote[caARN]).ret)
    /\ UNCHANGED <<d, remote, idCounter, started, op, input, output, resultErr, attempts, polls, transcoding, waitTimedOut>>

\* Mutant: Delete detaches the certificate at the provider.
AttachmentDeleteDetaches ==
    /\ remote' = [remote EXCEPT
                     ![att.certificate_authority_arn].certificate = "",
                     ![att.certificate_authority_arn].certificate_chain = ""]
    /\ calls' = <<Call("ImportCertificateAuthorityCertificate", input, Ok)>>
    /\ Return(RetNil)

\* Lines 99-103: only a warning is logged.
AttachmentDeleteEffect ==
    /\ remote' = remote
    /\ calls' = <<>>
    /\ Return(RetNil)

AttachmentDelete ==
    /\ Idle
    /\ att.id # ""
    /\ Begin("AttachmentDelete")
    /\ AttachmentDeleteEffect
    /\ disturbed' = FALSE
    /\ UNCHANGED <<d, att, idCounter, input, output, transcoding, waitTimedOut>>

\* Lines 42-63 run for a second attachment of the same authority: its import
\* replaces the one certificate slot of the authority. Only the provider's
\* side of that Create is kept; the second attachment's own data is not.
OtherAttachmentImport ==
    /\ ~Idle
    /\ att.id # ""
    /\ LET caARN == att.certificate_authority_arn IN
       \E other \in Attachments :
          /\ other.certificate_authority_arn = caARN
          /\ other.certificate_body # att.certificate_body
          /\ ImportResponse(remote, caARN) = Ok
          /\ remote[caARN].certificate = att.certificate_body
          /\ remote' = ProviderImport(remote, caARN,
                 ImportCertificateAuthorityCertificateInput(other).Certificate,
                 ImportCertificateAuthorityCertificateInput(other).CertificateChain)
    /\ disturbed' = TRUE
    /\ UNCHANGED <<d, att, idCounter, started, op, pc, ret, input, output, resultErr, attempts, polls,
                   calls, transcoding, waitTimedOut>>

\* ------------------------------------------------------------ the provider
\* The key pair is ready: the authority waits for its certificate.
ProviderActivates ==
    \E a \in Arns :
        /\ ~Idle
        /\ Live(remote, a)
        /\ remote[a].status = StatusCreating
        /\ remote' = [remote EXCEPT ![a].status = StatusPendingCertificate]
        /\ UNCHANGED <<d, att, idCounter, started, op, pc, ret, input, output, resultErr, attempts, polls,
                       calls, disturbed, transcoding, waitTimedOut>>

\* Creation fails, or an active authority's certificate expires.
ProviderFails ==
    \E a \in Arns :
        /\ ~Idle
        /\ Live(remote, a)
        /\ remote[a].status \in {StatusCreating, StatusActive}
        /\ remote' = [remote EXCEPT ![a].status =
                         IF @ = StatusCreating THEN StatusFailed ELSE StatusExpired]
        /\ disturbed' = TRUE
        /\ UNCHANGED <<d, att, idCounter, started, op, pc, ret, input, output, resultErr, attempts, polls,
                       calls, transcoding, waitTimedOut>>

\* The authority is gone: its retention window ended.
ProviderPurges ==
    \E a \in Arns :
        /\ ~Idle
        /\ Live(remote, a)
        /\ remote[a].deleting
        /\ remote' = [remote EXCEPT ![a] = [NoAuthority EXCEPT !.life = "purged"]]
        /\ disturbed' = TRUE
        /\ UNCHANGED <<d, att, idCounter, started, op, pc, ret, input, output, resultErr, attempts, polls,
                       calls, transcoding, waitTimedOut>>

\* ------------------------------------------- the transcoder on its own
\* The values of the domain: a required field is set, an optional one is
\* unset or set to a value other than its type's zero.
OptionalString(v) == {Nil, Ptr(v)}

Subjects ==
    {Nil} \cup {Ptr(x) : x \in [SubjectFields -> OptionalString("x")]}

CrlConfigurations ==
    {Nil} \cup
    { Ptr([Enabled |-> Ptr(e), CustomCname |-> c, ExpirationInDays |-> x,
           S3BucketName |-> b]) :
      e \in BOOLEAN, c \in OptionalString("crl.example.com"),
      x \in {Nil, Ptr(1), Ptr(5000)}, b \in OptionalString("bucket") }

RevocationConfigurations ==
    {Nil} \cup {Ptr([CrlConfiguration |-> c]) : c \in CrlConfigurations}

CertificateAuthorityConfigurations ==
    {Nil} \cup
    { Ptr([KeyAlgorithm |-> Ptr(k), SigningAlgorithm |-> Ptr(a), Subject |-> x]) :
      k \in {"RSA_2048", "RSA_4096"}, a \in {"SHA256WITHRSA", "SHA512WITHRSA"},
      x \in { Nil,
               Ptr([f \in SubjectFields |-> Nil]),
               Ptr([f \in SubjectFields |-> IF f = "CommonName" THEN Ptr("x") ELSE Nil]),
               Ptr([f \in SubjectFields |-> Ptr("x")]) } }

Domain(kind) ==
    CASE kind = "subject" -> Subjects
      [] kind = "configuration" -> CertificateAuthorityConfigurations
      [] kind = "crl" -> CrlConfigurations
      [] kind = "revocation" -> RevocationConfigurations

Kinds == {"subject", "configuration", "crl", "revocation"}

flatten(kind, x) ==
    CASE kind = "subject" -> flattenAcmpcaASN1Subject(x)
      [] kind = "configuration" -> flattenAcmpcaCertificateAuthorityConfiguration(x)
      [] kind = "crl" -> flattenAcmpcaCrlConfiguration(x)
      [] kind = "revocation" -> flattenAcmpcaRevocationConfiguration(x)

expand(kind, l) ==
    CASE kind = "subject" -> expandAcmpcaASN1Subject(l)
      [] kind = "configuration" -> expandAcmpcaCertificateAuthorityConfiguration(l)
      [] kind = "crl" -> expandAcmpcaCrlConfiguration(l)
      [] kind = "revocation" -> expandAcmpcaRevocationConfiguration(l)

TranscoderInit ==
    /\ d = NewResourceData
    /\ att = NewAttachmentData
    /\ remote = [a \in Arns |-> NoAuthority]
    /\ idCounter = 0
    /\ started = 0
    /\ op = "none"
    /\ pc = "idle"
    /\ ret = RetNil
    /\ input = NoInput
    /\ output = ""
    /\ resultErr = ""
    /\ attempts = 0
    /\ polls = 0
    /\ calls = <<>>
    /\ disturbed = FALSE
    /\ waitTimedOut = FALSE
    /\ \E kind \in Kinds : \E x \in Domain(kind) :
          transcoding = [kind |-> kind, stage |-> "domain", x |-> x]

Flatten ==
    /\ transcoding.stage = "domain"
    /\ transcoding' =
          [kind |-> transcoding.kind, stage |-> "flattened", x |-> transcoding.x,
           l |-> flatten(transcoding.kind, transcoding.x)]
    /\ UNCHANGED <<d, att, remote, idCounter, started, op, pc, ret, input, output, resultErr,
                   attempts, polls, calls, disturbed, waitTimedOut>>

Expand ==
    /\ transcoding.stage = "flattened"
    /\ transcoding' =
          [kind |-> transcoding.kind, stage |-> "expanded", x |-> transcoding.x,
           l |-> transcoding.l,
           y |-> expand(transcoding.kind, transcoding.l)]
    /\ UNCHANGED <<d, att, remote, idCounter, started, op, pc, ret, input, output, resultErr,
                   attempts, polls, calls, disturbed, waitTimedOut>>

TranscoderNext == Flatten \/ Expand

TranscoderSpec == TranscoderInit /\ [][TranscoderNext]_vars

Next ==
    \/ Create
    \/ CreateCertificateAuthorityInRetry
    \/ CreateCertificateAuthorityAfterTimeout
    \/ WaitForState
    \/ acmpcaCertificateAuthoritySelfSignCert
    \/ Read
    \/ ReadDescribe
    \/ ReadCertificate
    \/ ReadCsr
    \/ ReadTags
    \/ Update
    \/ UpdateCertificateAuthority
    \/ UpdateTags
    \/ Delete
    \/ DeleteCertificateAuthority
    \/ AttachmentCreate
    \/ AttachmentImport
    \/ AttachmentRead
    \/ AttachmentGetCertificate
    \/ AttachmentDelete
    \/ OtherAttachmentImport
    \/ ProviderActivates
    \/ ProviderFails
    \/ ProviderPurges

Spec == Init /\ [][Next]_vars


\* ================================================================ claims
CallsOf(api) == SelectSeq(calls, LAMBDA c : c.api = api)
Finished(name) == op = name /\ pc = "done"
IsValidationError(r) ==
    r \in {"validity_length must be set", "validity_unit must be set"}
LastCall == calls[Len(calls)]

C2_OneTokenOneAuthority ==
    op = "Create" =>
        LET creates == CallsOf("CreateCertificateAuthority")
            tokens == {creates[i].req.IdempotencyToken : i \in DOMAIN creates}
        IN /\ Cardinality(tokens) <= 1
           /\ Cardinality({a \in Arns : Live(remote, a) /\ remote[a].token \in tokens}) <= 1

C2_Witness ==
    /\ op = "Create"
    /\ pc = "wait"
    /\ Len(calls) = 2
    /\ calls[1].resp = "noresponse"
    /\ calls[2].resp = Ok
    /\ Cardinality({a \in Arns : Live(remote, a)}) = 1
    /\ remote[d.id].token = calls[1].req.IdempotencyToken

\* C3: when the activation wait of Create fails, Create returns an error
\* and the id the create call answered with is already recorded.
C3_IdRecordedBeforeWait ==
    (Finished("Create") /\ ret = "error waiting") =>
        (d.id # "" /\ d.id = output /\ d.id \in Arns)

C3_Witness ==
    /\ Finished("Create")
    /\ ret = "error waiting"
    /\ polls = MaxPolls
    /\ LastCall.resp = Ok
    /\ LastCall.req.status = StatusCreating
    /\ d.id = output
    /\ Live(remote, d.id)

\* C4 (as stated): whichever fetch step of Read learns that the authority
\* is absent, Read returns no error and clears the id.
C4_ReadAbsentIsNoError ==
    (Finished("Read") /\ Len(calls) > 0 /\ LastCall.resp = ErrNotFound) =>
        (ret = RetNil /\ d.id = "")

\* C5: Delete returns nil when the delete call answers not-found, and an
\* error on any other failure of the call.
C5_DeleteNotFoundIsSuccess ==
    Finished("Delete") =>
        /\ LastCall.api = "DeleteCertificateAuthority"
        /\ LastCall.resp = ErrNotFound => ret = RetNil
        /\ LastCall.resp = Ok => ret = RetNil
        /\ LastCall.resp \notin {Ok, ErrNotFound} => ret = "error deleting"

C5_Witness ==
    /\ Finished("Delete")
    /\ LastCall.resp = ErrNotFound
    /\ ret = RetNil

\* C6: Delete makes exactly one remote call, the scheduled deletion of the
\* recorded id with the configured retention, and returns on its answer.
C6_DeleteOneCall ==
    (op = "Delete" /\ pc = "done") =>
        /\ Len(calls) = 1
        /\ calls[1].api = "DeleteCertificateAuthority"
        /\ calls[1].req.CertificateAuthorityArn = d.id
        /\ calls[1].req.PermanentDeletionTimeInDays
               = Ptr(d.permanent_deletion_time_in_days)

\* Delete has returned and the authority is still there, waiting out its
\* retention of 7 days.
C6_Witness ==
    /\ Finished("Delete")
    /\ ret = RetNil
    /\ calls[1].resp = Ok
    /\ calls[1].req.PermanentDeletionTimeInDays = Ptr(7)
    /\ Live(remote, d.id)
    /\ remote[d.id].deleting

\* C7 (as stated): Create of a ROOT with validity, with the provider
\* following the plain scenario, returns no error and its Read shows
\* ACTIVE, a certificate, no chain, enabled.
C7_RootCreateCompletes ==
    (Finished("Create") /\ isRootCA(d) /\ CreateValidationError(d) = "" /\ ~disturbed) =>
        /\ ret = RetNil
        /\ d.status = StatusActive
        /\ d.certificate # ""
        /\ d.certificate_chain = ""
        /\ d.enabled

\* C8: Create of a SUBORDINATE without validity, with the provider
\* following the plain scenario, returns no error, makes no self-signing
\* call, and its Read shows PENDING_CERTIFICATE, a CSR, no certificate and
\* no chain.
C8_SubordinateCreate ==
    (/\ Finished("Create")
     /\ d.type = TypeSubordinate
     /\ ~d.validity_length.set
     /\ ~d.validity_unit.set
     /\ ~disturbed) =>
        /\ ret = RetNil
        /\ \A i \in DOMAIN calls :
              calls[i].api \notin {"IssueCertificate", "GetCertificate",
                                   "ImportCertificateAuthorityCertificate"}
        /\ \A i \in DOMAIN calls :
              calls[i].api = "GetCertificateAuthorityCsr" =>
                  (i > 1 /\ calls[i - 1].api = "GetCertificateAuthorityCertificate")
        /\ d.status = StatusPendingCertificate
        /\ d.certificate_signing_request # ""
        /\ d.certificate = ""
        /\ d.certificate_chain = ""

C8_Witness ==
    /\ Finished("Create")
    /\ d.type = TypeSubordinate
    /\ ~d.validity_length.set
    /\ ~disturbed
    /\ ret = RetNil
    /\ d.status = StatusPendingCertificate
    /\ d.certificate_signing_request = CsrOf(d.id)
    /\ calls[1].resp = ErrS3Permissions

\* C9: Update makes at most one UpdateCertificateAuthority call, exactly
\* one iff enabled or the revocation configuration changed; the call
\* carries a status iff enabled changed (DISABLED for enabled = false,
\* ACTIVE for enabled = true) and a revocation configuration iff that
\* configuration changed.
C9_OneCombinedUpdate ==
    op = "Update" =>
        LET updates == CallsOf("UpdateCertificateAuthority")
            enabledChanged == input.old.enabled # input.new.enabled
            revocationChanged ==
                input.old.revocation_configuration # input.new.revocation_configuration
        IN /\ Len(updates) <= 1
           /\ pc # "update_call" =>
                 (Len(updates) = 1 <=> (enabledChanged \/ revocationChanged))
           /\ pc = "update_call" => (enabledChanged \/ revocationChanged)
           /\ \A i \in DOMAIN updates :
                 /\ updates[i].req.CertificateAuthorityArn = input.old.id
                 /\ updates[i].req.Status # Nil <=> enabledChanged
                 /\ enabledChanged =>
                       updates[i].req.Status =
                           IF input.new.enabled THEN Ptr(StatusActive)
                           ELSE Ptr(StatusDisabled)
                 /\ updates[i].req.RevocationConfiguration # Nil <=> revocationChanged
                 /\ revocationChanged =>
                       updates[i].req.RevocationConfiguration =
                           expandAcmpcaRevocationConfiguration(
                               input.new.revocation_configuration)

\* Only enabled was toggled to false on an ACTIVE authority: one call with
\* status DISABLED and no revocation configuration, and the authority is
\* DISABLED afterwards.
C9_Witness ==
    /\ Finished("Update")
    /\ ret = RetNil
    /\ input.old.enabled
    /\ ~input.new.enabled
    /\ input.old.revocation_configuration = input.new.revocation_configuration
    /\ Len(CallsOf("UpdateCertificateAuthority")) = 1
    /\ calls[1].api = "UpdateCertificateAuthority"
    /\ calls[1].resp = Ok
    /\ calls[1].req.Status = Ptr(StatusDisabled)
    /\ calls[1].req.RevocationConfiguration = Nil
    /\ remote[d.id].status = StatusDisabled
    /\ d.status = StatusDisabled

\* C10: the attachment's Delete makes no remote call, returns no error,
\* and leaves every authority's certificate and chain, and so what a
\* fetch of them answers, as they were before it.
C10_AttachmentDeleteNoOp ==
    [][(op' = "AttachmentDelete" /\ started' # started) =>
          /\ calls' = <<>>
          /\ ret' = RetNil
          /\ pc' = "done"
          /\ \A a \in Arns :
                /\ remote'[a].certificate = remote[a].certificate
                /\ remote'[a].certificate_chain = remote[a].certificate_chain
                /\ CertificateResponse(remote', a) = CertificateResponse(remote, a)]_vars

C10_Witness ==
    /\ Finished("AttachmentDelete")
    /\ ret = RetNil
    /\ calls = <<>>
    /\ att.id # ""
    /\ remote[att.certificate_authority_arn].certificate = att.certificate_body
    /\ att.certificate_body # ""

\* C11 (as stated): a Read of the attachment that finds a certificate leaves
\* the attachment holding the authority's current certificate and chain,
\* the most recent import's, whichever attachment imported them.
C11_AttachmentReadShowsCurrent ==
    (Finished("AttachmentRead") /\ ret = RetNil /\ att.id # "") =>
        /\ att.certificate_body = remote[att.certificate_authority_arn].certificate
        /\ att.certificate_chain = remote[att.certificate_authority_arn].certificate_chain

\* C12: for the subject, the certificate authority configuration, the CRL
\* configuration and the revocation configuration, expanding the flattened
\* form of a domain value gives the value back; an absent block flattens to
\* no block and expands to absent again.
C12_ExpandFlattenRoundTrip ==
    /\ transcoding.stage \in {"flattened", "expanded"} =>
          (transcoding.x = Nil <=> transcoding.l = <<>>)
    /\ transcoding.stage = "expanded" =>
          /\ transcoding.y = transcoding.x
          /\ transcoding.x = Nil => transcoding.y = Nil

\* A revocation configuration whose CRL block is absent came back with the
\* block still absent.
C12_Witness ==
    /\ transcoding.stage = "expanded"
    /\ transcoding.kind = "revocation"
    /\ transcoding.x = Ptr([CrlConfiguration |-> Nil])
    /\ transcoding.l = <<[crl_configuration |-> <<>>]>>
    /\ transcoding.y = transcoding.x

\* The refreshes of Create's activation wait so far, in order.
WaitCalls ==
    IF op = "Create"
    THEN SubSeq(CallsOf("DescribeCertificateAuthority"), 1, polls)
    ELSE <<>>
SawPending(c) ==
    c.resp = ErrNotFound \/ (c.resp = Ok /\ c.req.status \in Pending)
SawTarget(c) == c.resp = Ok /\ c.req.status \in Target
AfterWait == op = "Create" /\ pc \notin {"idle", "create", "create_after_timeout", "wait"}
                           /\ polls > 0

\* While Create waits it can always make its next fetch and has made fewer
\* fetches than its budget; every fetch before the last one saw "" or
\* CREATING; it goes on exactly when the status first shows ACTIVE or
\* PENDING_CERTIFICATE, after as many fetches as that took; and when every
\* fetch of the budget saw the authority still being created, Create ends
\* with the wait's error.
WaitInvariant ==
    /\ polls <= MaxPolls
    /\ pc = "wait" =>
          /\ polls < MaxPolls
          /\ ENABLED WaitForState
          /\ \A i \in DOMAIN WaitCalls : SawPending(WaitCalls[i])
    /\ AfterWait =>
          /\ Len(WaitCalls) = polls
          /\ \A i \in 1..(polls - 1) : SawPending(WaitCalls[i])
          /\ SawTarget(WaitCalls[polls]) <=> ret # "error waiting"
          /\ (SawPending(WaitCalls[polls]) /\ polls = MaxPolls) => ret = "error waiting"
          /\ SawPending(WaitCalls[polls]) => polls = MaxPolls

\* The wait polls for as long as it runs, and resource.Retry makes its next
\* attempt for as long as it runs (both are loops of
\* StateChangeConf.WaitForState).
LiveSpec ==
    Spec /\ WF_vars(WaitForState) /\ WF_vars(CreateCertificateAuthorityInRetry)

\* C13: the activation wait of Create terminates: it ends at the first
\* fetch that shows ACTIVE or PENDING_CERTIFICATE, after as many fetches
\* as the status sequence is long, and with the wait's error once the
\* budget is used up while the status stays CREATING. A wait that began
\* always ends.
C13_WaitTerminates ==
    []WaitInvariant /\ ((pc = "wait") ~> (pc # "wait"))

\* CREATING, then PENDING_CERTIFICATE: two fetches, and Create went on.
C13_Witness ==
    /\ AfterWait
    /\ polls = 2
    /\ WaitCalls[1].req.status = StatusCreating
    /\ WaitCalls[2].req.status = StatusPendingCertificate
    /\ ret # "error waiting"

\* Read's describe found the authority: Read is past it, or has returned
\* from a later step with the id kept.
ReadFound ==
    \/ pc \in {"read_certificate", "read_csr", "read_tags"}
    \/ /\ pc = "done"
       /\ op \in {"Create", "Read", "Update"}
       /\ d.id # ""
       /\ ret \in {RetNil, "error reading certificate", "error reading csr",
                   "error listing tags"}
LastDescribe ==
    LET describes == CallsOf("DescribeCertificateAuthority")
    IN describes[Len(describes)]

\* C14: after a Read that found the authority, enabled is exactly
\* (status # DISABLED) for the status the provider answered in that Read,
\* whatever the status.
C14_EnabledIsNotDisabled ==
    ReadFound =>
        /\ LastDescribe.resp = Ok
        /\ d.status = LastDescribe.req.status
        /\ d.enabled = (LastDescribe.req.status # StatusDisabled)

\* A FAILED authority reads as enabled.
C14_Witness ==
    /\ Finished("Read")
    /\ ret = RetNil
    /\ LastDescribe.req.status = StatusFailed
    /\ d.status = StatusFailed
    /\ d.enabled

\* The values Read may hold from an earlier Read.
Held(data) ==
    { [data EXCEPT !.certificate = c[1], !.certificate_chain = c[2],
                   !.certificate_signing_request = c[3]] :
      c \in {<<"", "", "">>, <<"certA", "chainA", "csr:old">>, <<"certB", "", "csr:old">>} }

\* C15: an invalid-state answer to Read's certificate fetch, or to its CSR
\* fetch, is no failure: Read empties certificate and chain, or the CSR,
\* whatever it held before, and goes on to its next fetch.
C15_InvalidStateEmpties ==
    [][/\ \A data \in Held(d) :
             /\ SetCertificate(data, ErrInvalidState, NoAuthority).certificate = ""
             /\ SetCertificate(data, ErrInvalidState, NoAuthority).certificate_chain = ""
             /\ SetCsr(data, ErrInvalidState, "").certificate_signing_request = ""
       /\ (/\ pc = "read_certificate"
           /\ calls' # calls
           /\ calls'[Len(calls')].resp = ErrInvalidState) =>
              /\ d'.certificate = ""
              /\ d'.certificate_chain = ""
              /\ d'.id = d.id
              /\ pc' = "read_csr"
              /\ ret' = ret
       /\ (/\ pc = "read_csr"
           /\ calls' # calls
           /\ calls'[Len(calls')].resp = ErrInvalidState) =>
              /\ d'.certificate_signing_request = ""
              /\ d'.id = d.id
              /\ pc' = "read_tags"
              /\ ret' = ret]_vars

\* Read of an authority that is still being created: both fetches answered
\* invalid-state, and Read returned no error with all three empty.
C15_Witness ==
    /\ Finished("Read")
    /\ ret = RetNil
    /\ Len(calls) = 4
    /\ calls[2].api = "GetCertificateAuthorityCertificate"
    /\ calls[2].resp = ErrInvalidState
    /\ calls[3].api = "GetCertificateAuthorityCsr"
    /\ calls[3].resp = ErrInvalidState
    /\ calls[4].api = "ListTags"
    /\ d.certificate = ""
    /\ d.certificate_chain = ""
    /\ d.certificate_signing_request = ""

AttachmentIds(data) ==
    {data.certificate_authority_arn \o "-" \o ToString(n) : n \in 1..idCounter}

\* C16: the attachment's Create returns the import's error when the
\* provider rejects the import, and then no id is assigned; an id, of the
\* form <authority id>-<suffix>, is assigned only once the import call has
\* succeeded.
C16_AttachmentIdAfterImport ==
    op = "AttachmentCreate" =>
        /\ pc = "attachment_import" => (att.id = "" /\ calls = <<>>)
        /\ pc # "attachment_import" =>
              /\ calls[1].api = "ImportCertificateAuthorityCertificate"
              /\ calls[1].req.CertificateAuthorityArn = att.certificate_authority_arn
              /\ calls[1].resp # Ok =>
                    /\ pc = "done"
                    /\ ret = "error importing"
                    /\ att.id = ""
                    /\ Len(calls) = 1
              /\ calls[1].resp = Ok => ret # "error importing"
        /\ att.id # "" =>
              /\ calls[1].resp = Ok
              /\ att.id \in AttachmentIds(att)

\* The authority is still being created and cannot take a certificate.
C16_Witness ==
    /\ Finished("AttachmentCreate")
    /\ calls[1].resp = ErrInvalidState
    /\ Live(remote, att.certificate_authority_arn)
    /\ ret = "error importing"
    /\ att.id = ""

\* C17: the attachment's Read clears the id and returns no error when the
\* fetch answers not-found or invalid-state; on any other error it returns
\* an error and leaves the id as it was.
C17_AttachmentReadAbsence ==
    [][/\ att.id # "" =>
             /\ \A resp \in {ErrNotFound, ErrInvalidState} :
                   /\ AttachmentReadOutcome(att, resp, NoAuthority).data.id = ""
                   /\ AttachmentReadOutcome(att, resp, NoAuthority).ret = RetNil
             /\ \A resp \in {ErrOther, ErrS3Permissions} :
                   /\ AttachmentReadOutcome(att, resp, NoAuthority).data = att
                   /\ AttachmentReadOutcome(att, resp, NoAuthority).ret
                          = "error reading attachment"
       /\ (pc = "attachment_read" /\ calls' # calls) =>
             LET resp == calls'[Len(calls')].resp IN
             /\ pc' = "done"
             /\ resp \in {ErrNotFound, ErrInvalidState} =>
                   (att'.id = "" /\ ret' = RetNil)
             /\ resp \notin {Ok, ErrNotFound, ErrInvalidState} =>
                   (att' = att /\ ret' = "error reading attachment")
             /\ resp = Ok => (att'.id = att.id /\ ret' = RetNil)]_vars

\* The authority was purged under an attachment that held an id.
C17_Witness ==
    /\ op \in {"AttachmentCreate", "AttachmentRead"}
    /\ pc = "done"
    /\ LastCall.api = "GetCertificateAuthorityCertificate"
    /\ LastCall.resp = ErrNotFound
    /\ att.id = ""
    /\ att.certificate_authority_arn # ""
    /\ ret = RetNil

\* C18: when Create's activation wait runs out of budget, Create gives up
\* its own wait and nothing else: it has made no call but creates and
\* fetches, the id is recorded, and the authority is still there, still
\* being created, free to become PENDING_CERTIFICATE or ACTIVE later; a
\* later Read by that id stores the status the provider has by then.
C18_TimeoutOnlyAbortsWait ==
    /\ (op = "Create" /\ waitTimedOut) =>
          /\ pc = "done"
          /\ ret = "error waiting"
          /\ \A i \in DOMAIN calls :
                calls[i].api \in {"CreateCertificateAuthority", "DescribeCertificateAuthority"}
          /\ d.id # ""
          /\ d.id = output
          /\ Live(remote, d.id)
          /\ ~remote[d.id].deleting
          /\ remote[d.id].status = StatusCreating
    /\ (op = "Read" /\ ReadFound) => d.status = LastDescribe.req.status

\* The Create timed out; the authority became PENDING_CERTIFICATE all the
\* same, and the Read that followed shows it.
C18_Witness ==
    /\ Finished("Read")
    /\ started = 2
    /\ waitTimedOut
    /\ ret = RetNil
    /\ d.id = output
    /\ remote[d.id].status = StatusPendingCertificate
    /\ d.status = StatusPendingCertificate

CreateCalls == CallsOf("CreateCertificateAuthority")

\* C19: in Create a failed create call is followed by another attempt only
\* when it failed with the S3 permission error (or got no answer before
\* resource.Retry timed out); after any other failure Create has returned
\* an error with that call as its last, no id recorded and no fetch made.
C19_OnlyS3IsRetried ==
    op = "Create" =>
        \A i \in DOMAIN calls :
            /\ (calls[i].api = "CreateCertificateAuthority" /\ i < Len(calls)
                  /\ calls[i + 1].api = "CreateCertificateAuthority") =>
                  calls[i].resp \in {ErrS3Permissions, "noresponse"}
            /\ (calls[i].api = "CreateCertificateAuthority" /\ calls[i].resp = ErrOther) =>
                  /\ i = Len(calls)
                  /\ pc = "done"
                  /\ ret = "error creating"
                  /\ d.id = ""
                  /\ polls = 0

\* The first attempt failed with the S3 permission error and was retried;
\* the second failed otherwise and ended Create.
C19_Witness ==
    /\ Finished("Create")
    /\ Len(calls) = 2
    /\ calls[1].resp = ErrS3Permissions
    /\ calls[2].resp = ErrOther
    /\ ret = "error creating"
    /\ d.id = ""

\* Create never makes more attempts than the budget of resource.Retry
\* allows; when every attempt of the budget met the S3 permission error,
\* Create has returned an error, without an id and without a fetch.
RetryInvariant ==
    /\ attempts <= MaxAttempts
    /\ pc = "create" => attempts < MaxAttempts
    /\ (/\ op = "Create"
        /\ Len(CreateCalls) >= MaxAttempts
        /\ \A i \in DOMAIN CreateCalls : CreateCalls[i].resp = ErrS3Permissions) =>
           /\ Len(calls) = MaxAttempts
           /\ pc = "done"
           /\ ret = "error creating"
           /\ d.id = ""
           /\ polls = 0

\* C20: Create does not retry the create call forever: when every attempt
\* fails with the S3 permission error, the retrying ends with the budget
\* and Create returns an error, no id recorded and the activation wait not
\* begun.
C20_RetryBudgetEnds ==
    []RetryInvariant /\ ((pc = "create") ~> (pc # "create"))

C20_Witness ==
    /\ Finished("Create")
    /\ attempts = MaxAttempts
    /\ Len(calls) = MaxAttempts
    /\ \A i \in DOMAIN calls : calls[i].resp = ErrS3Permissions
    /\ ret = "error creating"
    /\ d.id = ""
    /\ polls = 0

\* A fetch of the activation wait was just answered with resp.
WaitFetched(resp) ==
    /\ pc = "wait"
    /\ calls' # calls
    /\ calls'[Len(calls')].resp = resp

FetchedStatus == calls'[Len(calls')].req.status

\* The statuses of an authority that the wait neither waits through nor
\* waits for.
Unexpected == {StatusDisabled, StatusExpired, StatusFailed}

\* C22 (as stated): a fetch of the activation wait that observes a status
\* outside the pending and the target set ends the wait and the wait
\* reports no error for it.
C22_UnexpectedStatusIsNoError ==
    [][(WaitFetched(Ok) /\ FetchedStatus \in Unexpected)
          => (pc' # "wait" /\ ret' # "error waiting")]_vars

\* C22 (amended): the wait is pending on {"", CREATING} and targets
\* {ACTIVE, PENDING_CERTIFICATE}; a fetch that observes a target ends the
\* wait without error, one that observes a pending status polls on (or
\* times out), and one that observes any other status ends the wait at
\* once with an error that is not a timeout.
C22_WaitStopsOnStatus ==
    [][/\ Pending = {"", "CREATING"}
       /\ Target = {"ACTIVE", "PENDING_CERTIFICATE"}
       /\ \A s \in Unexpected :
             WaitForStateOn(acmpcaCertificateAuthorityRefreshFunc(Ok, s)) = "error"
       /\ WaitFetched(Ok) =>
             IF FetchedStatus \in Target
             THEN pc' \in {"selfsign", "read_describe"} /\ ret' = ret
             ELSE IF FetchedStatus \in Pending
             THEN IF polls + 1 < MaxPolls
                  THEN pc' = "wait" /\ ret' = ret
                  ELSE pc' = "done" /\ ret' = "error waiting" /\ waitTimedOut'
             ELSE /\ FetchedStatus \in Unexpected
                  /\ pc' = "done"
                  /\ ret' = "error waiting"
                  /\ ~waitTimedOut']_vars

\* Create failed in its wait on the first fetch, which observed FAILED.
C22_Witness ==
    /\ Finished("Create")
    /\ ret = "error waiting"
    /\ ~waitTimedOut
    /\ polls = 1
    /\ LastCall.api = "DescribeCertificateAuthority"
    /\ LastCall.resp = Ok
    /\ LastCall.req.status = StatusFailed

\* The positions of Read.
ReadSteps == {"read_describe", "read_certificate", "read_csr", "read_tags"}

\* Self-signing went through to a successful import.
SelfSigned ==
    \E i \in DOMAIN calls :
        calls[i].api = "ImportCertificateAuthorityCertificate" /\ calls[i].resp = Ok

\* C23: the calls of a Create come in the order create call (with its
\* retries), fetches of the activation wait, self-signing (for ROOT only),
\* Read; the wait starts only after a create call succeeded, whatever
\* follows the wait starts only after the wait observed a target, and Read
\* is entered only if, for a ROOT, self-signing succeeded as well.
C23_CreateStepsInOrder ==
    op = "Create" =>
        LET n == Len(CreateCalls)
            after == Len(CreateCalls) + polls
        IN /\ Len(calls) >= after
           /\ \A i \in DOMAIN calls :
                 (calls[i].api = "CreateCertificateAuthority") <=> (i <= n)
           /\ \A i \in (n + 1)..after :
                 calls[i].api = "DescribeCertificateAuthority"
           /\ (polls > 0 \/ pc = "wait") =>
                 /\ n > 0
                 /\ calls[n].resp = Ok
                 /\ \A i \in 1..(n - 1) : calls[i].resp # Ok
           /\ (Len(calls) > after \/ pc \in ReadSteps \cup {"selfsign"}) =>
                 /\ polls > 0
                 /\ SawTarget(calls[after])
                 /\ \A i \in (n + 1)..(after - 1) : SawPending(calls[i])
           /\ pc = "selfsign" => (d.type = TypeRoot /\ Len(calls) = after)
           /\ Len(calls) > after =>
                 IF d.type = TypeRoot
                 THEN /\ calls[after + 1].api = "GetCertificateAuthorityCsr"
                      /\ (Len(calls) > after + 1 \/ pc \in ReadSteps) => SelfSigned
                 ELSE /\ calls[after + 1].api = "DescribeCertificateAuthority"
                      /\ \A i \in DOMAIN calls :
                            calls[i].api \notin {"IssueCertificate", "GetCertificate",
                                                 "ImportCertificateAuthorityCertificate"}
           /\ (pc \in ReadSteps /\ d.type = TypeRoot) => SelfSigned
           /\ (pc = "done" /\ ret = RetNil) => Len(calls) > after

\* A SUBORDINATE Create went through every step: a retried create call, a
\* wait of two fetches, and Read up to the tag listing.
C23_Witness ==
    /\ Finished("Create")
    /\ ret = RetNil
    /\ d.type = TypeSubordinate
    /\ Len(CreateCalls) = 2
    /\ polls = 2
    /\ LastCall.api = "ListTags"
    /\ LastCall.resp = Ok

\* Lines 566-623: the remote calls of the self-signer, in the order of the
\* code.
SelfSignOrder ==
    <<"GetCertificateAuthorityCsr", "IssueCertificate", "WaitUntilCertificateIssued",
      "GetCertificate", "ImportCertificateAuthorityCertificate">>

\* The calls the self-signer of the running Create has made so far.
SelfSignCalls ==
    IF op = "Create" /\ d.type = TypeRoot /\ Len(calls) > Len(CreateCalls) + polls
    THEN SubSeq(calls, Len(CreateCalls) + polls + 1, Len(calls))
    ELSE <<>>

\* C24: the self-signer of a finished Create made a prefix of its five
\* calls in their order, every call but the last succeeded, and it stopped
\* either at a failed call, with Create failing, or after the import.
C24_SelfSignStopsAtFailureOrImport ==
    (pc = "done" /\ SelfSignCalls # <<>>) =>
        LET n == Len(SelfSignCalls)
        IN /\ n <= Len(SelfSignOrder)
           /\ \A i \in 1..n : SelfSignCalls[i].api = SelfSignOrder[i]
           /\ \A i \in 1..(n - 1) : SelfSignCalls[i].resp = Ok
           /\ IF SelfSignCalls[n].resp # Ok
              THEN ret = "error self-signing"
              ELSE n = Len(SelfSignOrder)

\* C25: once the self-signer's CSR fetch has succeeded, an IssueCertificate
\* request follows that carries the fetched CSR, the configuration's
\* signing algorithm, the root-CA template and the validity given at
\* creation.
C25_IssueCertificateRequest ==
    (pc = "done" /\ SelfSignCalls # <<>> /\ SelfSignCalls[1].resp = Ok) =>
        /\ Len(SelfSignCalls) >= 2
        /\ SelfSignCalls[2].api = "IssueCertificate"
        /\ SelfSignCalls[2].req =
              IssueCertificateInput(d, CsrOf(d.id), CertificateAuthorityConfiguration[1])

\* The answer resp to the fetch made at a position of Read is an error of
\* the provider other than not-found and, for the certificate and the CSR,
\* other than invalid-state.
UnexpectedReadError(step, resp) ==
    /\ resp \notin {Ok, ErrNotFound}
    /\ step \in {"read_certificate", "read_csr"} => resp # ErrInvalidState

\* What Read returns when a fetch fails, by the position of the fetch.
ReadErrorAt(step) ==
    CASE step = "read_describe" -> "error reading"
      [] step = "read_certificate" -> "error reading certificate"
      [] step = "read_csr" -> "error reading csr"
      [] step = "read_tags" -> "error listing tags"

\* C26: when a fetch of Read (describe, certificate, CSR, tags) is answered
\* with an error that is neither not-found nor, for the certificate and
\* the CSR, invalid-state, Read ends at once with that step's error, makes
\* no later fetch, and leaves the id and all other held attributes alone.
C26_ReadFailsOnUnexpectedError ==
    [][(/\ pc \in ReadSteps
        /\ calls' # calls
        /\ UnexpectedReadError(pc, calls'[Len(calls')].resp)) =>
           /\ pc' = "done"
           /\ ret' = ReadErrorAt(pc)
           /\ d'.id # ""
           /\ d' = d
           /\ Len(calls') = Len(calls) + 1]_vars

\* A Read failed at the CSR fetch, its third fetch, and kept the id.
C26_Witness ==
    /\ Finished("Read")
    /\ ret = "error reading csr"
    /\ Len(calls) = 3
    /\ LastCall.api = "GetCertificateAuthorityCsr"
    /\ LastCall.resp = ErrOther
    /\ d.id # ""

\* The calls the running operation made to update the authority and to
\* reconcile its tags.
UpdateCalls == CallsOf("UpdateCertificateAuthority")
TagCalls == CallsOf("UpdateTags")

\* C27: the calls of an Update come in the order combined update call, tag
\* reconciliation, Read, each of the first two at most once; a failed
\* update call (not-found included) is the last call and Update returns
\* its error; a failed tag reconciliation is the last call and Update
\* returns its error; Read is entered only after the steps the change asks
\* for were made and succeeded.
C27_UpdateStepsInOrder ==
    op = "Update" =>
        LET u == Len(UpdateCalls)
            t == Len(TagCalls)
        IN /\ u <= 1
           /\ t <= 1
           /\ \A i \in DOMAIN calls :
                 /\ calls[i].api = "UpdateCertificateAuthority" => i = 1
                 /\ calls[i].api = "UpdateTags" => i = u + 1
                 /\ i > u + t =>
                       calls[i].api \in {"DescribeCertificateAuthority",
                                         "GetCertificateAuthorityCertificate",
                                         "GetCertificateAuthorityCsr", "ListTags"}
           /\ (u = 1 /\ calls[1].resp # Ok) =>
                 (Len(calls) = 1 /\ pc = "done" /\ ret = "error updating")
           /\ (t = 1 /\ calls[u + 1].resp # Ok) =>
                 (Len(calls) = u + 1 /\ pc = "done" /\ ret = "error updating tags")
           /\ (pc \in ReadSteps \/ Len(calls) > u + t) =>
                 /\ (u = 1) <=> updateCertificateAuthority(input.old, input.new)
                 /\ (t = 1) <=> input.tagsChange
                 /\ \A i \in 1..(u + t) : calls[i].resp = Ok

\* An Update that changed both the authority and its tags went through the
\* combined call, the tag reconciliation and Read.
C27_Witness ==
    /\ Finished("Update")
    /\ ret = RetNil
    /\ Len(calls) = 6
    /\ calls[1].api = "UpdateCertificateAuthority"
    /\ calls[1].resp = Ok
    /\ calls[2].api = "UpdateTags"
    /\ calls[2].resp = Ok
    /\ LastCall.api = "ListTags"

\* An operation's return that is an error.
IsError(r) == r \notin {RetNil, RetPanic, Running}

\* C28: a Create that returns an error after a create call succeeded (the
\* wait, the self-signing or the final Read failed) holds a non-empty id,
\* the one the provider assigned to the authority of its idempotency
\* token; a failed Create holds no id only if it failed at validation or
\* at the create call.
C28_IdAfterFailedCreate ==
    (Finished("Create") /\ IsError(ret)) =>
        /\ (\E i \in DOMAIN CreateCalls : CreateCalls[i].resp = Ok) =>
              /\ ret \in {"error waiting", "error self-signing"}
                            \cup {ReadErrorAt(step) : step \in ReadSteps}
              /\ d.id # ""
              /\ d.id \in Arns
              /\ d.id = output
              /\ remote[d.id].token = input.IdempotencyToken
        /\ ret \in {"error waiting", "error self-signing"}
                      \cup {ReadErrorAt(step) : step \in ReadSteps} =>
              /\ d.id # ""
              /\ CreateCalls[Len(CreateCalls)].resp = Ok
        /\ d.id = "" =>
              /\ IsValidationError(ret) \/ ret = "error creating"
              /\ IsValidationError(ret) => calls = <<>>
              /\ ret = "error creating" =>
                    (polls = 0 /\ LastCall.api = "CreateCertificateAuthority"
                               /\ LastCall.resp # Ok)

\* A Create of the second authority failed in its final Read, at the tag
\* listing, and holds the id the provider assigned.
C28_Witness ==
    /\ Finished("Create")
    /\ ret = "error listing tags"
    /\ LastCall.resp = ErrOther
    /\ d.id = Arn(2)
    /\ d.id = output
    /\ remote[d.id].token = input.IdempotencyToken

====
